---- MODULE Spec2Model ----
(***************************************************************************)
(* Order-management backend (backend/main.py, backend/schemas.py):         *)
(* the menu and order collections of the document store, the order-total   *)
(* calculator, the order lifecycle handlers and the menu seeding routine.   *)
(*                                                                         *)
(* Representation.                                                         *)
(*  - A collection is a sequence of documents; the ObjectId the store      *)
(*    assigns to a document is its position (1, 2, ...).                    *)
(*  - An identity token is the string form of a key: [wf |-> TRUE,         *)
(*    hex |-> k] is the 24-hex-digit string of ObjectId k; Malformed is a   *)
(*    string ObjectId() rejects.                                           *)
(*  - A price is a float.  The model keeps prices that are multiples of    *)
(*    1/Scale (1/8), for which IEEE double products and sums are exact, as  *)
(*    the integer number of eighths.  A rounded total is the integer       *)
(*    number of hundredths.                                                *)
(*  - Python None / JSON null is the string "None".                        *)
(***************************************************************************)
EXTENDS Integers, Sequences, FiniteSets, TLC

VARIABLES
    menu,      \* db["menuitem"]: sequence of menu documents
    orders,    \* db["order"]: sequence of order documents
    resp,      \* the last HTTP response sent by a sequential handler
    computed,  \* history: per order, what compute_total returned at its creation
    seed,      \* per seeding request: its position in seed_menu and its locals
    calls,     \* per status request in flight: its position and its locals
    log,       \* history: the $set updates the store applied, in store order
    calc       \* calculator harness: the item list given and the result

vars == <<menu, orders, resp, computed, seed, calls, log, calc>>

None == "None"

\* ------------------------------------------------------------------ bounds
MaxItems == 2      \* line items of an order body
MaxOrders == 2     \* orders stored, lifecycle and status specifications
MaxStored == 1     \* orders stored, order-creation specification
MaxDirect == 2     \* documents POST /menu inserted
MaxSeedDirect == 1 \* documents POST /menu inserted, seeding specification
NCalls == 2        \* concurrent status requests

\* ------------------------------------------------------ numbers as floats
\* Prices are kept in units of 1/Scale.
Scale == 8

\* round(x, 2) dropping the tie rule: always towards minus infinity.
RoundDown2(t) == (25 * t) \div 2

\* round(total, 2) of a double that is exactly t/8: the nearest multiple of
\* 0.01, an exact tie going to the even one.  In half-hundredths the value
\* is 25 * t, so it is a tie exactly when 25 * t is odd.
Round2(t) ==
    LET q == (25 * t) \div 2
    IN  IF (25 * t) % 2 = 0 THEN q
        ELSE IF q % 2 = 0 THEN q ELSE q + 1

\* price * it.quantity with the quantity forgotten.
LineAmountUnit(price, quantity) == price

\* price * it.quantity
LineAmount(price, quantity) == price * quantity

\* --------------------------------------------------------------- identity
InvalidId == -1

Malformed == [wf |-> FALSE, hex |-> 0]

\* ObjectId(token): the key, or InvalidId where the constructor raises.
ObjectId(token) == IF token.wf THEN token.hex ELSE InvalidId

\* str(doc["_id"]): the token of a key.
StrId(oid) == [wf |-> TRUE, hex |-> oid]

\* get_documents(coll, {"_id": oid}, 1): at most one document.
get_documents(coll, oid) ==
    IF oid \in DOMAIN coll THEN <<coll[oid]>> ELSE <<>>

\* ------------------------------------------------------------ calculator
RECURSIVE compute_loop(_, _, _, _)
compute_loop(items, m, i, total) ==
    IF i > Len(items)
    THEN [status |-> 200, detail |-> "ok", total |-> Round2(total), at |-> 0]
    ELSE LET it == items[i]
             oid == ObjectId(it.menu_item_id)
         IN  IF oid = InvalidId
             THEN [status |-> 400, detail |-> "Invalid menu_item_id",
                   total |-> 0, at |-> i]
             ELSE LET doc_list == get_documents(m, oid)
                  IN  IF doc_list = <<>>
                      THEN [status |-> 404, detail |-> "Menu item not found",
                            total |-> 0, at |-> i]
                      ELSE compute_loop(items, m, i + 1,
                               total + LineAmount(doc_list[1].price, it.quantity))

\* compute_total pricing a line item whose menu item is missing at 0
\* instead of raising.
RECURSIVE compute_loop_lenient(_, _, _, _)
compute_loop_lenient(items, m, i, total) ==
    IF i > Len(items)
    THEN [status |-> 200, detail |-> "ok", total |-> Round2(total), at |-> 0]
    ELSE LET it == items[i]
             oid == ObjectId(it.menu_item_id)
         IN  IF oid = InvalidId
             THEN [status |-> 400, detail |-> "Invalid menu_item_id",
                   total |-> 0, at |-> i]
             ELSE LET doc_list == get_documents(m, oid)
                      price == IF doc_list = <<>> THEN 0 ELSE doc_list[1].price
                  IN  compute_loop_lenient(items, m, i + 1,
                          total + LineAmount(price, it.quantity))

compute_total_lenient(items, m) == compute_loop_lenient(items, m, 1, 0)

compute_total(items, m) == compute_loop(items, m, 1, 0)

\* ----------------------------------------------------------------- schemas
\* Order(customer_id, guest_details, items, total_amount).dict()
Order(customer_id, guest_details, items, total_amount) ==
    [customer_id |-> customer_id, guest_details |-> guest_details,
     items |-> items, total_amount |-> total_amount,
     payment_status |-> "pending", delivery_status |-> "new", notes |-> None]

\* CreateOrderRequest: the declared fields of the request body; any other
\* field of the body is ignored.
CreateOrderRequest(raw) ==
    [customer_id |-> raw.customer_id, guest_details |-> raw.guest_details,
     items |-> raw.items, notes |-> raw.notes]

\* The order document with the total taken from the body when it has one.
OrderDataClientTotal(raw, total_amount) ==
    LET payload == CreateOrderRequest(raw)
    IN  Order(payload.customer_id, payload.guest_details, payload.items,
              IF raw.total_amount.given THEN raw.total_amount.value
              ELSE total_amount)

\* order_data of create_order, for a request body and the computed total.
OrderData(raw, total_amount) ==
    LET payload == CreateOrderRequest(raw)
    IN  Order(payload.customer_id, payload.guest_details, payload.items,
              total_amount)

\* status.dict() taken whole: a field that is None is an update too.
UpdatesAll(status) == DOMAIN status

\* {k: v for k, v in status.dict().items() if v is not None}
Updates(status) == {k \in DOMAIN status : status[k] # None}

\* An update document given without "$set": the stored document is replaced,
\* every field the update does not name is lost.
ReplaceFields(doc, fields, values) ==
    [k \in DOMAIN doc |->
        IF k \in fields THEN values[k]
        ELSE IF k = "items" THEN <<>>
        ELSE IF k = "total_amount" THEN 0
        ELSE None]

\* {"$set": updates} applied to one document.
SetFields(doc, fields, values) ==
    [k \in DOMAIN doc |-> IF k \in fields THEN values[k] ELSE doc[k]]

\* The two status fields of an order document.
NoStatus == [payment_status |-> None, delivery_status |-> None]
StatusOf(doc) ==
    [payment_status |-> doc.payment_status,
     delivery_status |-> doc.delivery_status]

\* An HTTP response: the handler, the status code, the detail of an error,
\* and the identity token of the document returned.  at and prior are
\* history: the position of the line item compute_total raised at, and the
\* payment_status of the order before confirm_payment set it.
NoResult == [status |-> 0, detail |-> "", total |-> 0, at |-> 0]
NoCalc == [items |-> <<>>, pc |-> "idle", result |-> NoResult]
NoResp ==
    [op |-> "none", status |-> 0, detail |-> "", id |-> Malformed, at |-> 0,
     prior |-> None]
Failure(op, status, detail, at) ==
    [op |-> op, status |-> status, detail |-> detail, id |-> Malformed,
     at |-> at, prior |-> None]
Resp(op, detail, id) ==
    [op |-> op, status |-> 200, detail |-> detail, id |-> id, at |-> 0,
     prior |-> None]
RespAfter(op, detail, id, doc) ==
    [op |-> op, status |-> 200, detail |-> detail, id |-> id, at |-> 0,
     prior |-> doc.payment_status]

\* ------------------------------------------------------------------- menu
Defaults ==
    << [name |-> "Chicken Fry", price |-> 239 * Scale],
       [name |-> "Kerala Style Chicken Roast", price |-> 289 * Scale],
       [name |-> "Kerala Fish Curry", price |-> 299 * Scale],
       [name |-> "Crispy Fish Fry", price |-> 319 * Scale],
       [name |-> "Green Power Salad", price |-> 179 * Scale],
       [name |-> "Quinoa Chickpea Salad", price |-> 199 * Scale] >>

DefaultNames == [i \in DOMAIN Defaults |-> Defaults[i].name]

\* A stored menu document.  by is history: the handler that inserted it
\* (0: POST /menu, 1: seeding).
MenuDoc(item, by) == [name |-> item.name, price |-> item.price, by |-> by]

\* find_one taken to find nothing.
NeverExists(m, name) == FALSE

\* db["menuitem"].find_one({"name": name}) is not None
Exists(m, name) == \E i \in DOMAIN m : m[i].name = name

\* How many documents of a menu collection POST /menu inserted.
Directs(m) == Cardinality({i \in DOMAIN m : m[i].by = 0})

\* POST /menu
create_menu_item(item) ==
    /\ menu' = Append(menu, MenuDoc(item, 0))
    /\ resp' = Resp("create_menu_item", "ok", StrId(Len(menu) + 1))
    /\ UNCHANGED <<orders, computed, seed, calls, log, calc>>

\* The loop of seed_menu run without interruption from item i on.
RECURSIVE seed_loop(_, _, _, _)
seed_loop(m, i, created, skipped) ==
    IF i > Len(Defaults)
    THEN [menu |-> m, created |-> created, skipped |-> skipped]
    ELSE IF Exists(m, Defaults[i].name)
         THEN seed_loop(m, i + 1, created, Append(skipped, Defaults[i].name))
         ELSE seed_loop(Append(m, MenuDoc(Defaults[i], 1)), i + 1,
                        Append(created, Defaults[i].name), skipped)

\* POST /admin/seed_menu, handled with no other request in between.
seed_menu ==
    LET r == seed_loop(menu, 1, <<>>, <<>>)
    IN  /\ menu' = r.menu
        /\ resp' = [Resp("seed_menu", "ok", Malformed) EXCEPT
                        !.at = Len(r.created)]
        /\ UNCHANGED <<orders, computed, seed, calls, log, calc>>

\* ----------------------------------------------------------------- orders
\* POST /orders
create_order(raw) ==
    LET payload == CreateOrderRequest(raw)
        t == compute_total(payload.items, menu)
    IN  IF t.status # 200
        THEN /\ resp' = Failure("create_order", t.status, t.detail, t.at)
             /\ UNCHANGED <<menu, orders, computed, seed, calls, log, calc>>
        ELSE /\ orders' = Append(orders, OrderData(raw, t.total))
             /\ computed' = Append(computed, t.total)
             /\ resp' = Resp("create_order", "ok", StrId(Len(orders) + 1))
             /\ UNCHANGED <<menu, seed, calls, log, calc>>

\* PATCH /orders/{order_id}
update_order_status(order_id, status) ==
    LET oid == ObjectId(order_id)
        updates == Updates(status)
    IN  /\ UNCHANGED <<menu, computed, seed, calls, log, calc>>
        /\ IF oid = InvalidId
           THEN /\ resp' = Failure("update_order_status", 400, "Invalid order id", 0)
                /\ UNCHANGED orders
           ELSE IF updates = {}
           THEN /\ resp' = Failure("update_order_status", 400,
                                   "No updates provided", 0)
                /\ UNCHANGED orders
           ELSE IF oid \notin DOMAIN orders
           THEN /\ resp' = Failure("update_order_status", 404, "Order not found", 0)
                /\ UNCHANGED orders
           ELSE /\ orders' = [orders EXCEPT ![oid] = SetFields(@, updates, status)]
                /\ resp' = Resp("update_order_status", "ok", StrId(oid))

\* confirm_payment writing the status the body's signature selects.
PaidStatusChecked(body) == IF body.signature = None THEN "failed" ELSE "paid"

\* The update document of confirm_payment.
PaidStatus(body) == "paid"

\* POST /payments/confirm
confirm_payment(body) ==
    LET oid == ObjectId(body.order_id)
    IN  /\ UNCHANGED <<menu, computed, seed, calls, log, calc>>
        /\ IF oid = InvalidId
           THEN /\ resp' = Failure("confirm_payment", 400, "Invalid order id", 0)
                /\ UNCHANGED orders
           ELSE IF oid \notin DOMAIN orders
           THEN /\ resp' = Failure("confirm_payment", 404, "Order not found", 0)
                /\ UNCHANGED orders
           ELSE /\ orders' = [orders EXCEPT
                                 ![oid] = SetFields(@, {"payment_status"},
                                              [payment_status |-> PaidStatus(body)])]
                /\ resp' = RespAfter("confirm_payment", "success", StrId(oid),
                                     orders[oid])

\* ---------------------------------------------------------- request values
ItemTokens == {Malformed, StrId(1), StrId(2)}
OrderItems == [menu_item_id : ItemTokens, quantity : {1}]
ItemLists == UNION {[1..n -> OrderItems] : n \in 0..MaxItems}

\* The bodies of POST /orders of the order-creation specification: every
\* item list, no total_amount key.
CreateBodies ==
    [customer_id : {"u1"}, guest_details : {None}, items : ItemLists,
     notes : {"ring the bell"}, total_amount : {[given |-> FALSE, value |-> 0]}]

MenuItems == [name : {"Special"}, price : {1, 20}]

OrderTokens == {Malformed} \cup {StrId(k) : k \in 1..(MaxOrders + 1)}
PaymentInputs == {None, "failed"}
DeliveryInputs == {None, "delivered", "shipped"}
StatusBodies == [payment_status : PaymentInputs, delivery_status : DeliveryInputs]
ConfirmBodies ==
    [order_id : OrderTokens, payment_id : {"mock_1"}, signature : {None, "sig"}]

\* The request values of the lifecycle and status specifications: few order
\* bodies, each carrying a total_amount key (given) of 0.01, and every status
\* body.
LifecycleItemLists ==
    {<<[menu_item_id |-> StrId(1), quantity |-> 1]>>,
     <<[menu_item_id |-> Malformed, quantity |-> 1]>>}
LifecycleBodies ==
    [customer_id : {"u1"}, guest_details : {None},
     items : LifecycleItemLists, notes : {"ring the bell"},
     total_amount : {[given |-> TRUE, value |-> 1]}]
LifecycleMenuItems == [name : {"Special"}, price : {20}]

\* The request values of the calculator specification: every quantity sign,
\* prices whose totals fall on rounding ties.
CalcItems ==
    [menu_item_id : {Malformed, StrId(1), StrId(2), StrId(3)},
     quantity : {-1, 0, 1, 2}]
CalcItemLists == UNION {[1..n -> CalcItems] : n \in 0..MaxItems}
CalcPrices == {1, 3, 20}

\* The request values of the seeding specification.
SeedMenuItems == [name : {"Chicken Fry", "Special"}, price : {1}]

\* The request values of the concurrent status specification.
RaceTokens == {Malformed, StrId(1), StrId(2)}
RaceStatusBodies ==
    [payment_status : {None, "failed"}, delivery_status : {None, "delivered"}]
RaceConfirmBodies ==
    [order_id : RaceTokens, payment_id : {"mock_1"}, signature : {None}]

\* ------------------------------------------------------------------- Spec
Init ==
    /\ menu = <<>>
    /\ orders = <<>>
    /\ resp = NoResp
    /\ computed = <<>>
    /\ seed = <<>>
    /\ calls = <<>>
    /\ log = <<>>
    /\ calc = NoCalc

\* The order lifecycle: sequential requests, every status body.
Next ==
    \/ \E item \in LifecycleMenuItems :
           create_menu_item(item) /\ Directs(menu') <= MaxDirect
    \/ seed_menu
    \/ \E raw \in LifecycleBodies : create_order(raw) /\ Len(orders') <= MaxOrders
    \/ \E order_id \in OrderTokens, status \in StatusBodies :
           update_order_status(order_id, status)
    \/ \E body \in ConfirmBodies : confirm_payment(body)

Spec == Init /\ [][Next]_vars

\* The status handlers: sequential requests on orders of a menu of one item.
InitStatus ==
    /\ menu = <<MenuDoc([name |-> "Special", price |-> 20], 0)>>
    /\ orders = <<>>
    /\ resp = NoResp
    /\ computed = <<>>
    /\ seed = <<>>
    /\ calls = <<>>
    /\ log = <<>>
    /\ calc = NoCalc

NextStatus ==
    \/ \E raw \in LifecycleBodies : create_order(raw) /\ Len(orders') <= MaxOrders
    \/ \E order_id \in OrderTokens, status \in StatusBodies :
           update_order_status(order_id, status)
    \/ \E body \in ConfirmBodies : confirm_payment(body)

SpecStatus == InitStatus /\ [][NextStatus]_vars

\* Order creation: sequential requests, every order body.
NextCreate ==
    \/ \E item \in MenuItems :
           create_menu_item(item) /\ Directs(menu') <= MaxDirect
    \/ \E raw \in CreateBodies : create_order(raw) /\ Len(orders') <= MaxStored

SpecCreate == Init /\ [][NextCreate]_vars

\* ------------------------------------------------------------- calculator
\* The menus the calculator is run against: the seeded catalog, and what up
\* to MaxDirect POST /menu calls leave.
RECURSIVE DirectMenus(_)
DirectMenus(n) ==
    IF n = 0 THEN {<<>>}
    ELSE LET shorter == DirectMenus(n - 1)
         IN  shorter \cup
             {Append(m, MenuDoc([name |-> "Special", price |-> pr], 0)) :
                  m \in {x \in shorter : Len(x) = n - 1}, pr \in CalcPrices}

SeededMenu == seed_loop(<<>>, 1, <<>>, <<>>).menu

InitCalc ==
    /\ menu \in DirectMenus(MaxDirect) \cup {SeededMenu}
    /\ calc \in [items : CalcItemLists, pc : {"ready"}, result : {NoResult}]
    /\ orders = <<>>
    /\ resp = NoResp
    /\ computed = <<>>
    /\ seed = <<>>
    /\ calls = <<>>
    /\ log = <<>>

\* await compute_total(payload.items)
calculate ==
    /\ calc.pc = "ready"
    /\ calc' = [calc EXCEPT !.pc = "done",
                            !.result = compute_total(calc.items, menu)]
    /\ UNCHANGED <<menu, orders, resp, computed, seed, calls, log>>

NextCalc == calculate

SpecCalc == InitCalc /\ [][NextCalc]_vars

\* ---------------------------------------------------------------- seeding
\* seed_menu one store operation at a time.  A request p is idle, about to
\* look up the name of item i ("find"), about to insert item i ("insert"),
\* or has returned ("done").  created holds the names of the documents
\* inserted.  after is history: whether some request had returned when this
\* one arrived.  seen is history: while the insert is pending, the size of
\* the collection at the lookup before it.
\* The two seeding requests: one after the other, or interleaved.
Seeders == {1, 2}

SeedIdle ==
    [pc |-> "idle", i |-> 1, created |-> <<>>, skipped |-> <<>>,
     after |-> FALSE, seen |-> 0]

\* The position after item i is dealt with.
SeedAdvance(i) == IF i + 1 > Len(Defaults) THEN "done" ELSE "find"

InitSeed ==
    /\ menu = <<>>
    /\ seed = [p \in Seeders |-> SeedIdle]
    /\ orders = <<>>
    /\ resp = NoResp
    /\ computed = <<>>
    /\ calls = <<>>
    /\ log = <<>>
    /\ calc = NoCalc

\* POST /admin/seed_menu arrives.
seed_start(p) ==
    /\ seed[p].pc = "idle"
    /\ seed' = [seed EXCEPT ![p].pc = "find",
                            ![p].after = \E q \in DOMAIN seed : seed[q].pc = "done"]
    /\ UNCHANGED <<menu, orders, resp, computed, calls, log, calc>>

\* existing = await db["menuitem"].find_one({"name": item["name"]}), and the
\* skip when it is found.
seed_find(p) ==
    /\ seed[p].pc = "find"
    /\ LET i == seed[p].i
       IN  IF Exists(menu, Defaults[i].name)
           THEN seed' = [seed EXCEPT
                            ![p].skipped = Append(@, Defaults[i].name),
                            ![p].i = i + 1,
                            ![p].pc = SeedAdvance(i)]
           ELSE seed' = [seed EXCEPT ![p].seen = Len(menu), ![p].pc = "insert"]
    /\ UNCHANGED <<menu, orders, resp, computed, calls, log, calc>>

\* doc = await create_document("menuitem", item); created.append(doc)
seed_insert(p) ==
    /\ seed[p].pc = "insert"
    /\ LET i == seed[p].i
       IN  /\ menu' = Append(menu, MenuDoc(Defaults[i], 1))
           /\ seed' = [seed EXCEPT
                          ![p].created = Append(@, Defaults[i].name),
                          ![p].seen = 0,
                          ![p].i = i + 1,
                          ![p].pc = SeedAdvance(i)]
    /\ UNCHANGED <<orders, resp, computed, calls, log, calc>>

NextSeed ==
    \/ \E p \in Seeders : seed_start(p)
    \/ \E p \in Seeders : seed_find(p)
    \/ \E p \in Seeders : seed_insert(p)
    \/ \E item \in SeedMenuItems :
           create_menu_item(item) /\ Directs(menu') <= MaxSeedDirect

SpecSeed == InitSeed /\ [][NextSeed]_vars

\* ------------------------------------------------- concurrent status calls
\* update_order_status and confirm_payment up to their one store operation
\* ("await": the update document is built, find_one_and_update is pending)
\* and from it on.  began is history: how many updates the store had applied
\* when the request arrived.
CallIdle ==
    [pc |-> "idle", op |-> "none", oid |-> 0, fields |-> {}, values |-> NoStatus,
     status |-> 0, doc |-> NoStatus, began |-> 0]

RaceBody ==
    [customer_id |-> "u1", guest_details |-> None,
     items |-> <<[menu_item_id |-> StrId(1), quantity |-> 1]>>, notes |-> None,
     total_amount |-> [given |-> FALSE, value |-> 0]]

\* The store after seeding and one order.
InitRace ==
    /\ menu = SeededMenu
    /\ orders = <<OrderData(RaceBody, compute_total(RaceBody.items, SeededMenu).total)>>
    /\ computed = <<orders[1].total_amount>>
    /\ calls = [p \in 1..NCalls |-> CallIdle]
    /\ log = <<>>
    /\ resp = NoResp
    /\ seed = <<>>
    /\ calc = NoCalc

CallFailed(p, op, status) ==
    calls' = [calls EXCEPT ![p].pc = "done", ![p].op = op, ![p].status = status,
                           ![p].began = Len(log)]

CallAwait(p, op, oid, fields, values) ==
    calls' = [calls EXCEPT ![p].pc = "await", ![p].op = op, ![p].oid = oid,
                           ![p].fields = fields, ![p].values = values,
                           ![p].began = Len(log)]

\* update_order_status up to the await of find_one_and_update.
update_begin(p, order_id, status) ==
    /\ calls[p].pc = "idle"
    /\ LET oid == ObjectId(order_id)
           updates == Updates(status)
       IN  IF oid = InvalidId THEN CallFailed(p, "update_order_status", 400)
           ELSE IF updates = {} THEN CallFailed(p, "update_order_status", 400)
           ELSE CallAwait(p, "update_order_status", oid, updates, status)
    /\ UNCHANGED <<menu, orders, resp, computed, seed, log, calc>>

\* confirm_payment up to the await of find_one_and_update.
confirm_begin(p, body) ==
    /\ calls[p].pc = "idle"
    /\ LET oid == ObjectId(body.order_id)
       IN  IF oid = InvalidId THEN CallFailed(p, "confirm_payment", 400)
           ELSE CallAwait(p, "confirm_payment", oid, {"payment_status"},
                          [payment_status |-> PaidStatus(body),
                           delivery_status |-> None])
    /\ UNCHANGED <<menu, orders, resp, computed, seed, log, calc>>

\* db["order"].find_one_and_update({"_id": oid}, {"$set": updates},
\* return_document=True), executed by the store as one step, and the rest
\* of the handler.
store_update(p) ==
    /\ calls[p].pc = "await"
    /\ LET c == calls[p]
       IN  IF c.oid \notin DOMAIN orders
           THEN /\ calls' = [calls EXCEPT ![p].pc = "done", ![p].status = 404]
                /\ UNCHANGED <<orders, log>>
           ELSE /\ orders' = [orders EXCEPT
                                 ![c.oid] = SetFields(@, c.fields, c.values)]
                /\ log' = Append(log, [by |-> p, oid |-> c.oid,
                                       fields |-> c.fields, values |-> c.values])
                /\ calls' = [calls EXCEPT ![p].pc = "done", ![p].status = 200,
                                          ![p].doc = StatusOf(orders'[c.oid])]
    /\ UNCHANGED <<menu, resp, computed, seed, calc>>

NextRace ==
    \/ \E p \in 1..NCalls, order_id \in RaceTokens, status \in RaceStatusBodies :
           update_begin(p, order_id, status)
    \/ \E p \in 1..NCalls, body \in RaceConfirmBodies : confirm_begin(p, body)
    \/ \E p \in 1..NCalls : store_update(p)

SpecRace == InitRace /\ [][NextRace]_vars

\* ----------------------------------------------------------------- claims
PaymentStatuses == {"pending", "paid", "failed"}
DeliveryStatuses == {"new", "preparing", "out_for_delivery", "delivered", "cancelled"}

\* C1: every stored order has payment_status in {pending, paid, failed} and
\* delivery_status in {new, preparing, out_for_delivery, delivered,
\* cancelled}.
C1_StatusesInEnums ==
    \A i \in DOMAIN orders :
        /\ orders[i].payment_status \in PaymentStatuses
        /\ orders[i].delivery_status \in DeliveryStatuses

\* C2: the total_amount of every stored order is the value compute_total
\* returned when the order was created, whatever total_amount the request
\* body carried and whatever requests were handled since.
C2_TotalIsComputed ==
    /\ Len(computed) = Len(orders)
    /\ \A i \in DOMAIN orders : orders[i].total_amount = computed[i]

\* C2 witness: the first of two stored orders, whose body like every order
\* body of this specification carried a total_amount of 0.01, holds the
\* total of its line item at the price of 2.50, after a second order was
\* created, its statuses were changed, and the menu was seeded.
C2_Witness ==
    /\ Len(orders) = 2
    /\ orders[1].items # <<>>
    /\ orders[1].total_amount = 250
    /\ orders[1].payment_status = "paid"
    /\ orders[1].delivery_status = "delivered"
    /\ Len(menu) > Len(Defaults)

\* The exact sum of price times quantity over the line items, each naming an
\* existing menu item, in eighths.
RECURSIVE ExactSum(_, _)
ExactSum(items, m) ==
    IF items = <<>> THEN 0
    ELSE m[ObjectId(Head(items).menu_item_id)].price * Head(items).quantity
         + ExactSum(Tail(items), m)

\* Whether r hundredths is t eighths rounded to 2 decimal places: no further
\* than half a hundredth away, and even when exactly half a hundredth away.
RoundedTo2(t, r) ==
    LET d == 25 * t - 2 * r
    IN  /\ d \in {-1, 0, 1}
        /\ d # 0 => r % 2 = 0

\* C3: for line items that all name existing menu items, compute_total
\* returns the sum of price times quantity rounded to 2 decimal places, the
\* quantity taken as given (zero and negative too); 0.00 for no line item;
\* 777.00 for prices 239 and 299 at quantities 2 and 1.
C3_TotalIsRoundedSum ==
    ( /\ calc.pc = "done"
      /\ \A k \in DOMAIN calc.items :
             ObjectId(calc.items[k].menu_item_id) \in DOMAIN menu )
    => /\ calc.result.status = 200
       /\ RoundedTo2(ExactSum(calc.items, menu), calc.result.total)
       /\ calc.items = <<>> => calc.result.total = 0
       /\ ( /\ Len(calc.items) = 2
            /\ calc.items[1].quantity = 2
            /\ calc.items[2].quantity = 1
            /\ menu[ObjectId(calc.items[1].menu_item_id)].price = 239 * Scale
            /\ menu[ObjectId(calc.items[2].menu_item_id)].price = 299 * Scale )
          => calc.result.total = 77700

\* C3 witness: the total of 2 at 239 and 1 at 299 was computed as 777.00.
C3_Witness ==
    /\ calc.pc = "done"
    /\ calc.items = <<[menu_item_id |-> StrId(1), quantity |-> 2],
                      [menu_item_id |-> StrId(3), quantity |-> 1]>>
    /\ menu = SeededMenu
    /\ calc.result.status = 200
    /\ calc.result.total = 77700

\* C4: confirm_payment on an existing order leaves its payment_status at
\* "paid", whatever it was before and whatever payment_id and signature the
\* body carries, and no order's payment_status ever becomes anything else by
\* it.
C4_ConfirmAlwaysPaid ==
    [][\A body \in ConfirmBodies :
          confirm_payment(body) =>
              /\ DOMAIN orders' = DOMAIN orders
              /\ ObjectId(body.order_id) \in DOMAIN orders =>
                     /\ resp'.status = 200
                     /\ orders'[ObjectId(body.order_id)].payment_status = "paid"
              /\ \A i \in DOMAIN orders :
                     orders'[i].payment_status
                         \in {orders[i].payment_status, "paid"}]_vars

\* C4 witness: a payment was confirmed on an order whose payment_status was
\* "failed".
C4_Witness ==
    /\ resp.op = "confirm_payment"
    /\ resp.status = 200
    /\ resp.prior = "failed"
    /\ orders[ObjectId(resp.id)].payment_status = "paid"

\* C5: a successful update_order_status whose body sets exactly one of the
\* two status fields changes that field of that order and nothing else in
\* the order collection.
C5_OneFieldFrame ==
    [][\A order_id \in OrderTokens, status \in StatusBodies :
          ( /\ update_order_status(order_id, status)
            /\ resp'.status = 200
            /\ (status.payment_status = None) # (status.delivery_status = None) )
          => LET f == IF status.payment_status # None THEN "payment_status"
                      ELSE "delivery_status"
             IN  orders' = [orders EXCEPT ![ObjectId(order_id)][f] = status[f]]
      ]_vars

\* C5 witness: with two orders stored, an update has just set the
\* delivery_status of one whose payment had been confirmed; no update body
\* carries "paid", so the update set that one field, and the payment_status
\* is still there.
C5_Witness ==
    /\ resp.op = "update_order_status"
    /\ resp.status = 200
    /\ Len(orders) = 2
    /\ orders[ObjectId(resp.id)].delivery_status = "delivered"
    /\ orders[ObjectId(resp.id)].payment_status = "paid"

\* C6: update_order_status answers 400 "Invalid order id" for a malformed
\* order_id; otherwise 400 "No updates provided" when both fields are
\* absent; otherwise 404 when no order has the id; and whenever it fails the
\* order collection is as before.
C6_UpdateFailures ==
    [][\A order_id \in OrderTokens, status \in StatusBodies :
          update_order_status(order_id, status) =>
              LET malformed == ObjectId(order_id) = InvalidId
                  empty == /\ status.payment_status = None
                           /\ status.delivery_status = None
                  missing == ObjectId(order_id) \notin DOMAIN orders
              IN  /\ malformed =>
                        resp'.status = 400 /\ resp'.detail = "Invalid order id"
                  /\ (~malformed /\ empty) =>
                        resp'.status = 400 /\ resp'.detail = "No updates provided"
                  /\ (~malformed /\ ~empty /\ missing) =>
                        resp'.status = 404 /\ resp'.detail = "Order not found"
                  /\ (~malformed /\ ~empty /\ ~missing) => resp'.status = 200
                  /\ resp'.status # 200 => orders' = orders]_vars

\* C6 witness: an update was refused for having no field set while orders
\* whose statuses had been changed are stored.
C6_Witness ==
    /\ resp.op = "update_order_status"
    /\ resp.status = 400
    /\ resp.detail = "No updates provided"
    /\ Len(orders) = 2
    /\ orders[1].payment_status = "failed"
    /\ orders[2].delivery_status = "delivered"

\* Whether a line item names a well-formed identity no menu item has.
MissingRef(it, m) ==
    /\ ObjectId(it.menu_item_id) # InvalidId
    /\ ObjectId(it.menu_item_id) \notin DOMAIN m

\* The position of the first line item that is malformed or missing, 0 if
\* there is none.
FirstBad(items, m) ==
    LET bad == {k \in DOMAIN items :
                   \/ ObjectId(items[k].menu_item_id) = InvalidId
                   \/ MissingRef(items[k], m)}
    IN  IF bad = {} THEN 0 ELSE CHOOSE k \in bad : \A j \in bad : k <= j

\* C7 as stated: create_order answers 404 whenever any line item names a
\* menu item that does not exist, whatever the other line items are.
C7_AnyMissingIsNotFound ==
    [][\A raw \in CreateBodies :
          ( /\ create_order(raw)
            /\ \E k \in DOMAIN raw.items : MissingRef(raw.items[k], menu) )
          => resp'.status = 404]_vars

\* C7 as amended: create_order answers 404 whenever the first line item that
\* is malformed or missing is a missing one (400 when it is a malformed
\* one), and a create_order that fails stores no order.
C7_FirstBadDecides ==
    [][\A raw \in CreateBodies :
          create_order(raw) =>
              LET k == FirstBad(raw.items, menu)
              IN  /\ (k # 0 /\ MissingRef(raw.items[k], menu)) =>
                        resp'.status = 404 /\ resp'.detail = "Menu item not found"
                  /\ (k # 0 /\ ~MissingRef(raw.items[k], menu)) =>
                        resp'.status = 400
                  /\ k # 0 => orders' = orders /\ computed' = computed
                  /\ resp'.status # 200 => orders' = orders]_vars

\* C7 witness: a create_order failed with 404 at its second line item, the
\* first one naming an existing menu item, with an order stored.
C7_Witness ==
    /\ resp.op = "create_order"
    /\ resp.status = 404
    /\ resp.at = 2
    /\ Len(orders) = 1

\* C8: a seeding request that arrives after another one has returned inserts
\* nothing: it never changes the menu collection, its created list stays
\* empty, and it returns a skipped list holding every catalog name, whatever
\* the collection held before the first request.
C8_SecondRunIsNoOp ==
    /\ [](\A p \in DOMAIN seed :
             seed[p].after =>
                 /\ seed[p].created = <<>>
                 /\ seed[p].pc # "insert"
                 /\ seed[p].pc = "done" => seed[p].skipped = DefaultNames)
    /\ [][\A p \in DOMAIN seed :
             (seed[p].after /\ seed'[p] # seed[p]) => menu' = menu]_vars

\* C8 witness: a request that arrived after another had returned has
\* returned too, with nothing created and every name skipped; the first
\* request had found one catalog name in the collection and inserted the
\* others.
C8_Witness ==
    \E p, q \in DOMAIN seed :
        /\ seed[p].after
        /\ seed[p].pc = "done"
        /\ seed[p].created = <<>>
        /\ seed[p].skipped = DefaultNames
        /\ seed[q].pc = "done"
        /\ seed[q].skipped = <<"Chicken Fry">>
        /\ Len(seed[q].created) = Len(Defaults) - 1
        /\ menu[1].by = 0

\* C9: names are not unique under concurrency.  What the lookup does
\* guarantee: when a seeding request inserts a name, every document of that
\* name in the collection was inserted after the request looked the name up
\* (between its find_one and its insert).
C9_DuplicateOnlyInWindow ==
    [][\A p \in DOMAIN seed :
          seed_insert(p) =>
              \A k \in DOMAIN menu :
                  menu[k].name = Defaults[seed[p].i].name => k > seed[p].seen]_vars

\* C9 witness: both seeding requests inserted "Chicken Fry", so two seeded
\* documents of that name are stored, and POST /menu inserted a second
\* document of a seeded name.
C9_Witness ==
    /\ \A p \in DOMAIN seed :
           \E k \in DOMAIN seed[p].created : seed[p].created[k] = "Chicken Fry"
    /\ \E j, k \in DOMAIN menu :
           /\ j < k
           /\ menu[j].name = menu[k].name
           /\ menu[j].by = 1
           /\ menu[k].by = 1
    /\ \E j, k \in DOMAIN menu :
           /\ j < k
           /\ menu[j].name = menu[k].name
           /\ menu[j].by = 1
           /\ menu[k].by = 0

\* The value the store last set field f of order o to: that of the last
\* applied update naming f, the field's initial value if there is none.
LastSet(o, f) ==
    LET ks == {k \in DOMAIN log : log[k].oid = o /\ f \in log[k].fields}
    IN  IF ks = {} THEN Order(None, None, <<>>, 0)[f]
        ELSE log[CHOOSE k \in ks : \A j \in ks : j <= k].values[f]

\* C10: however concurrent update_order_status and confirm_payment calls on
\* an order interleave, each status field holds the value of the last update
\* the store applied that set the field, so two calls setting different
\* fields both take effect; and the document a call returns holds the values
\* the call set.
C10_LastWritePerField ==
    /\ \A o \in DOMAIN orders :
           \A f \in {"payment_status", "delivery_status"} :
               orders[o][f] = LastSet(o, f)
    /\ \A p \in DOMAIN calls :
           (calls[p].pc = "done" /\ calls[p].status = 200) =>
               \A f \in calls[p].fields : calls[p].doc[f] = calls[p].values[f]

\* C10 witness: two update_order_status calls on order 1 were in flight
\* together (each arrived before the store had applied any update), one
\* setting payment_status and one setting delivery_status; the store applied
\* the second call's update first, and the order holds both values.
C10_Witness ==
    /\ \A p \in {1, 2} :
           /\ calls[p].pc = "done"
           /\ calls[p].op = "update_order_status"
           /\ calls[p].status = 200
           /\ calls[p].oid = 1
           /\ calls[p].began = 0
    /\ calls[1].fields = {"payment_status"}
    /\ calls[2].fields = {"delivery_status"}
    /\ Len(log) = 2
    /\ log[1].by = 2
    /\ orders[1].payment_status = "failed"
    /\ orders[1].delivery_status = "delivered"

====
